---- MODULE Spec2Model ----
(***************************************************************************)
(* Model of the MCP server supervisor, scripts/utils/mcp-manager.py        *)
(* (class MCPServerManager): start/stop/restart/status/deploy, the         *)
(* monitoring thread and the state files read back at startup.             *)
(*                                                                         *)
(* Threads are interleaved at the points where the code blocks or does a   *)
(* system call (Popen, time.sleep, process.wait).                          *)
(*                                                                         *)
(* self.servers maps a name to an MCPServerStatus object.  start_server    *)
(* replaces the object of a name while stop_server and the monitor may     *)
(* still hold the old one in a local variable; each object therefore       *)
(* carries an identity (id), a local reference is that identity, and a     *)
(* write through a reference whose object has been replaced changes        *)
(* nothing any later read can see (no code reads a replaced object).       *)
(*                                                                         *)
(* Popen either returns a child or raises; the raising outcome stands for  *)
(* every exception of lines 151-185 (missing binary, permission denied,    *)
(* and the global name `os`, which this file binds only inside main()).    *)
(***************************************************************************)
EXTENDS Integers, Sequences, FiniteSets, TLC

\* ---------------------------------------------------------------- bounds
MaxSpawn == 3        \* processes spawned per run (successful Popen calls)
MaxPersist == 1      \* largest counter found in a state file at startup
CfgMaxRestarts == 1  \* max_restarts of the configurations in use
MaxCount == 2        \* restart_server is not called on a restart_count this large

\* ------------------------------------------------------ program constants
FailThreshold == 3   \* error_count >= 3 triggers restart_server

\* ----------------------------------------------------------------- names
Names == {"a", "b"}
NameOrder == <<"a", "b">>
Threads == {"op1", "op2", "mon", "mon2"}
Mons == {"mon", "mon2"}

NoPid == 0
NoName == "none"     \* server_name=None: every server
NoRef == 0
LoadedRef == -1      \* identity of the object _load_server_states creates
NoCfg == [known |-> FALSE, auto_start |-> FALSE, auto_restart |-> FALSE, max_restarts |-> 0]
NoState == [present |-> FALSE, status |-> "stopped", pid |-> NoPid, restart_count |-> 0, error_count |-> 0]
\* A state file cut short: open(state_file, 'w') has emptied it and json.dump
\* has not finished.
Partial == [present |-> TRUE, status |-> "partial", pid |-> NoPid, restart_count |-> 0, error_count |-> 0]
NoServer == [id |-> NoRef, status |-> "stopped", pid |-> NoPid, restart_count |-> 0, error_count |-> 0]

VARIABLES
    server_configs,      \* self.server_configs: name -> MCPServerConfig
    servers,             \* self.servers: name -> MCPServerStatus (NoServer: no key)
    processes,           \* self.processes: name -> pid of the Popen handle (NoPid: no key)
    spawns,              \* OS: number of pids handed out so far
    live,                \* OS: the running processes, as <<pid, name spawned for>>
    reaped,              \* OS: pids whose exit status was collected (poll/wait)
    disk,                \* runtime_dir/<name>.state
    booted,              \* _load_server_states has run
    monitoring_enabled,  \* self.monitoring_enabled
    th,                  \* per thread: position and locals
    relaunches,          \* per name: processes spawned by the monitor thread
    fails                \* per name: health checks failed in a row, since the last
                         \* passed one or the last restart_server the monitor called

vars == <<server_configs, servers, processes, spawns, live, reaped, disk,
          booted, monitoring_enabled, th, relaunches, fails>>

\* -------------------------------------------------------------- helpers
MCPServerConfig(as, ar, mr) ==
    [known |-> TRUE, auto_start |-> as, auto_restart |-> ar, max_restarts |-> mr]

MCPServerStatus(i, st, p, rc, ec) ==
    [id |-> i, status |-> st, pid |-> p, restart_count |-> rc, error_count |-> ec]

NoSnap == [n \in Names |-> NoCfg]

\* A thread that is not inside any call.
Idle == [pc |-> "idle", op |-> "none", n |-> "a", force |-> FALSE, proc |-> NoPid,
         ref |-> NoRef, server |-> NoRef, ret |-> "none", rc0 |-> 0,
         wasRunning |-> FALSE, todo |-> <<>>, snap |-> NoSnap,
         log |-> {}, result |-> {}, config |-> NoCfg]

\* A monitor thread that has not been started, or has left its loop.
MonOff == [Idle EXCEPT !.pc = "mon_off"]

\* self.logger: the messages the running call has written so far, each named
\* after the line that writes it.
Log(s, m) == [s EXCEPT !.log = @ \cup {m}]

HasRec(n) == servers[n].id # NoRef
Alive(p) == \E n \in Names : <<p, n>> \in live
LiveOf(n) == {p \in 1..spawns : <<p, n>> \in live}
Killed(lv, p) == {e \in lv : e[1] # p}

StartPcs == {"start", "start_spawn", "start_poll"}
StopPcs == {"stop", "stop_signal", "stop_wait"}
MonOps == {"mon_start", "mon_restart"}

\* The caller's continuation of a finished start/stop/restart: an operator's call
\* is over; the monitor goes back into the body of its for loop.
Outer(s, r) ==
    IF s.op \in MonOps
    THEN [s EXCEPT !.pc = "mon_back", !.ret = IF r THEN "ok" ELSE "fail",
                   !.proc = NoPid, !.ref = NoRef]
    ELSE [s EXCEPT !.pc = "done", !.ret = IF r THEN "ok" ELSE "fail",
                   !.proc = NoPid, !.ref = NoRef]

\* `return r` from start_server or stop_server.  Inside restart_server a
\* stop_server that returned True is followed by time.sleep(2) and start_server.
Return(s, r) ==
    IF s.pc \in StopPcs /\ s.op \in {"restart", "mon_restart"}
    THEN IF r THEN [s EXCEPT !.pc = "restart_sleep", !.ref = NoRef, !.proc = NoPid]
              ELSE Outer(s, FALSE)
    ELSE Outer(s, r)

\* The record _save_server_state writes for a status object.
StateData(rec) ==
    [present |-> TRUE, status |-> rec.status, pid |-> rec.pid,
     restart_count |-> rec.restart_count, error_count |-> rec.error_count]

\* _save_server_state(n) with the dictionary sv: nothing if the name has no entry.
SaveServerState(dk, sv, n) ==
    IF sv[n].id # NoRef THEN [dk EXCEPT ![n] = StateData(sv[n])] ELSE dk

\* _save_server_state(n) whose write raises (caught and logged at line 318):
\* open() itself fails and the file keeps its content, or the failure comes
\* after open(state_file, 'w') has emptied the file.
SaveFails(dk, n) == {dk, [dk EXCEPT ![n] = Partial]}

\* ------------------------------------------------------------------ Init
\* The state files a previous session can have left: start_server writes a
\* running record with its pid, stop_server a stopped one without pid.
PriorStates ==
    {NoState}
    \cup {[present |-> TRUE, status |-> "running", pid |-> 1, restart_count |-> rc,
           error_count |-> ec] : rc \in 0..MaxPersist, ec \in 0..MaxPersist}
    \cup {[present |-> TRUE, status |-> "stopped", pid |-> NoPid, restart_count |-> rc,
           error_count |-> ec] : rc \in 0..MaxPersist, ec \in 0..MaxPersist}

\* The configurations mcp.json can hold for one server.
DeployConfigs == {MCPServerConfig(as, ar, CfgMaxRestarts) : as \in BOOLEAN, ar \in BOOLEAN}

\* The manager after __init__: mcp.json configures server "a" with one of cfgs,
\* and the state file of "a" is one of prior.
InitWith(prior, cfgs) ==
    /\ \E c \in cfgs : server_configs = [n \in Names |-> IF n = "a" THEN c ELSE NoCfg]
    /\ servers = [n \in Names |-> NoServer]
    /\ processes = [n \in Names |-> NoPid]
    /\ \E d \in prior :
          /\ disk = [n \in Names |-> IF n = "a" THEN d ELSE NoState]
          /\ spawns = IF d.pid # NoPid THEN 1 ELSE 0
          /\ live \in (IF d.pid # NoPid THEN {{}, {<<d.pid, "a">>}} ELSE {{}})
    /\ reaped = {}
    /\ booted = FALSE
    /\ monitoring_enabled = FALSE
    /\ th = [t \in Threads |-> IF t \in Mons THEN MonOff ELSE Idle]
    /\ relaunches = [n \in Names |-> 0]
    /\ fails = [n \in Names |-> 0]

Init == InitWith({NoState}, DeployConfigs)

\* ------------------------------------------------- _load_server_states
\* Lines 325-328: json.load and state_data["name"] succeed.
Readable(d) == d.present /\ d.status # "partial"

LoadOneResetsCounts(n) ==
    LET d == disk[n] IN
    IF Readable(d) /\ server_configs[n].known /\ ~(d.pid # NoPid /\ Alive(d.pid))
    THEN MCPServerStatus(LoadedRef, "stopped", NoPid, 0, 0)
    ELSE servers[n]

\* One state file.  A file json.load cannot read is logged and skipped (line
\* 360).  A pid that is still running makes the code build
\* subprocess.Popen([]), which raises IndexError: the except clause logs it and
\* the file yields no entry.  Otherwise the entry is a stopped record that keeps
\* the file's counters.
LoadOne(n) ==
    LET d == disk[n] IN
    IF Readable(d) /\ server_configs[n].known /\ ~(d.pid # NoPid /\ Alive(d.pid))
    THEN MCPServerStatus(LoadedRef, "stopped", NoPid, d.restart_count, d.error_count)
    ELSE servers[n]

LoadServerStates ==
    /\ ~booted
    /\ booted' = TRUE
    /\ servers' = [n \in Names |-> LoadOne(n)]
    /\ UNCHANGED <<server_configs, processes, spawns, live, reaped, disk,
                   monitoring_enabled, th, relaunches, fails>>

\* --------------------------------------------------------- start_server
\* start_server without the early return of lines 139-141.
StartCheckUnknownConfig(t) ==
    LET s == th[t] IN
    /\ s.pc = "start"
    /\ th' = [th EXCEPT ![t] =
          IF HasRec(s.n) /\ servers[s.n].status = "running" /\ ~s.force
          THEN Return(Log(s, "already_running"), TRUE)
          ELSE [s EXCEPT !.pc = "start_spawn"]]
    /\ UNCHANGED <<server_configs, servers, processes, spawns, live, reaped,
                   disk, booted, monitoring_enabled, relaunches, fails>>

\* start_server without the early return of lines 143-146.
StartCheckAlwaysSpawns(t) ==
    LET s == th[t] IN
    /\ s.pc = "start"
    /\ th' = [th EXCEPT ![t] =
          IF ~server_configs[s.n].known
          THEN Return(Log(s, "config_not_found"), FALSE)
          ELSE [s EXCEPT !.pc = "start_spawn"]]
    /\ UNCHANGED <<server_configs, servers, processes, spawns, live, reaped,
                   disk, booted, monitoring_enabled, relaunches, fails>>

\* Lines 139-146: the two early returns.
StartCheck(t) ==
    LET s == th[t] IN
    /\ s.pc = "start"
    /\ th' = [th EXCEPT ![t] =
          IF ~server_configs[s.n].known
          THEN Return(Log(s, "config_not_found"), FALSE)
          ELSE IF HasRec(s.n) /\ servers[s.n].status = "running" /\ ~s.force
               THEN Return(Log(s, "already_running"), TRUE)
               ELSE [s EXCEPT !.pc = "start_spawn"]]
    /\ UNCHANGED <<server_configs, servers, processes, spawns, live, reaped,
                   disk, booted, monitoring_enabled, relaunches, fails>>

\* Lines 177-185: the status object of a fresh start.
\* A start that does not reset the failure counter of the record.
NewServerStatusStaleCount(p) == MCPServerStatus(p, "running", p, 0, 1)

NewServerStatus(p) == MCPServerStatus(p, "running", p, 0, 0)

\* Lines 150-185 and the except clause 199-203.
StartSpawn(t) ==
    LET s == th[t] IN
    /\ s.pc = "start_spawn"
    /\ \/ \* Popen (or anything before it) raises
          /\ servers' = IF HasRec(s.n) THEN [servers EXCEPT ![s.n].status = "error"]
                        ELSE servers
          /\ th' = [th EXCEPT ![t] = Return(Log(s, "start_exception"), FALSE)]
          /\ UNCHANGED <<processes, spawns, live, relaunches>>
       \/ \* Popen returns the child p; both dictionaries get a new entry
          /\ spawns < MaxSpawn
          /\ LET p == spawns + 1 IN
                /\ spawns' = p
                /\ live' = live \cup {<<p, s.n>>}
                /\ processes' = [processes EXCEPT ![s.n] = p]
                /\ servers' = [servers EXCEPT ![s.n] = NewServerStatus(p)]
                /\ th' = [th EXCEPT ![t] = [s EXCEPT !.pc = "start_poll", !.proc = p]]
          /\ relaunches' = IF t \in Mons THEN [relaunches EXCEPT ![s.n] = @ + 1]
                           ELSE relaunches
    /\ UNCHANGED <<server_configs, reaped, disk, booted, monitoring_enabled, fails>>

\* Lines 187-197, after time.sleep(1).
StartPoll(t) ==
    LET s == th[t] IN
    /\ s.pc = "start_poll"
    /\ IF Alive(s.proc)
       THEN /\ disk' = SaveServerState(disk, servers, s.n)
            /\ th' = [th EXCEPT ![t] = Return(Log(s, "started"), TRUE)]
            /\ UNCHANGED <<servers, reaped>>
       ELSE /\ servers' = [servers EXCEPT ![s.n].status = "error"]
            /\ reaped' = reaped \cup {s.proc}
            /\ th' = [th EXCEPT ![t] = Return(Log(s, "failed_to_start"), FALSE)]
            /\ UNCHANGED disk
    /\ UNCHANGED <<server_configs, processes, spawns, live, booted,
                   monitoring_enabled, relaunches, fails>>

\* Lines 190-193 with a _save_server_state that fails.
StartPollSaveFails(t) ==
    LET s == th[t] IN
    /\ s.pc = "start_poll"
    /\ Alive(s.proc)
    /\ HasRec(s.n)
    /\ disk' \in SaveFails(disk, s.n)
    /\ th' = [th EXCEPT ![t] = Return(Log(Log(s, "started"), "save_failed"), TRUE)]
    /\ UNCHANGED <<server_configs, servers, processes, spawns, live, reaped,
                   booted, monitoring_enabled, relaunches, fails>>

\* ---------------------------------------------------------- stop_server
\* stop_server without the early return of lines 213-215.
StopCheckAlwaysStops(t) ==
    LET s == th[t] IN
    /\ s.pc = "stop"
    /\ th' = [th EXCEPT ![t] =
          IF ~HasRec(s.n) THEN Return(Log(s, "not_managed"), TRUE)
          ELSE [s EXCEPT !.pc = "stop_signal", !.ref = servers[s.n].id]]
    /\ UNCHANGED <<server_configs, servers, processes, spawns, live, reaped,
                   disk, booted, monitoring_enabled, relaunches, fails>>

\* Lines 207-215: the two early returns.
StopCheck(t) ==
    LET s == th[t] IN
    /\ s.pc = "stop"
    /\ th' = [th EXCEPT ![t] =
          IF ~HasRec(s.n) THEN Return(Log(s, "not_managed"), TRUE)
          ELSE IF servers[s.n].status # "running"
          THEN Return(Log(s, "not_running"), TRUE)
          ELSE [s EXCEPT !.pc = "stop_signal", !.ref = servers[s.n].id]]
    /\ UNCHANGED <<server_configs, servers, processes, spawns, live, reaped,
                   disk, booted, monitoring_enabled, relaunches, fails>>

\* Lines 245-253, reached with the locals s: del self.processes[name] (KeyError if the key is gone: the
\* except clause returns False), then the object held in `server` becomes
\* stopped and the entry the dictionary holds now is saved.
StopFinish(t, s, hadHandle, lv, rp) ==
    /\ live' = lv
    /\ reaped' = rp
    /\ IF hadHandle /\ processes[s.n] = NoPid
       THEN /\ th' = [th EXCEPT ![t] = Return(Log(s, "stop_exception"), FALSE)]
            /\ UNCHANGED <<servers, processes, disk>>
       ELSE /\ processes' = [processes EXCEPT ![s.n] = NoPid]
            /\ servers' = IF servers[s.n].id = s.ref
                          THEN [servers EXCEPT ![s.n].status = "stopped",
                                               ![s.n].pid = NoPid]
                          ELSE servers
            /\ disk' = SaveServerState(disk, servers', s.n)
            /\ th' = [th EXCEPT ![t] = Return(Log(s, "stopped"), TRUE)]

\* Lines 220-233: look the handle up and signal its process group.
StopSignal(t) ==
    LET s == th[t]
        process == processes[s.n] IN
    /\ s.pc = "stop_signal"
    /\ IF process = NoPid
       THEN StopFinish(t, s, FALSE, live, reaped)
       ELSE IF process \in reaped
            THEN \* os.getpgid raises ProcessLookupError
                 /\ th' = [th EXCEPT ![t] = Return(Log(s, "stop_exception"), FALSE)]
                 /\ UNCHANGED <<servers, processes, live, reaped, disk>>
            ELSE IF s.force
                 THEN StopFinish(t, s, TRUE, Killed(live, process), reaped)
                 ELSE /\ th' = [th EXCEPT ![t] = [s EXCEPT !.pc = "stop_wait",
                                                            !.proc = process]]
                      /\ UNCHANGED <<servers, processes, live, reaped, disk>>
    /\ UNCHANGED <<server_configs, spawns, booted, monitoring_enabled,
                   relaunches, fails>>

\* stop_server giving up at the timeout: no SIGKILL, failure reported.
StopWaitGivesUp(t) ==
    LET s == th[t] IN
    /\ s.pc = "stop_wait"
    /\ \/ StopFinish(t, s, TRUE, Killed(live, s.proc), reaped \cup {s.proc})
       \/ /\ Alive(s.proc)
          /\ th' = [th EXCEPT ![t] = Return(Log(s, "force_killing"), FALSE)]
          /\ UNCHANGED <<servers, processes, live, reaped, disk>>
    /\ UNCHANGED <<server_configs, spawns, booted, monitoring_enabled,
                   relaunches, fails>>

\* Lines 235-243: process.wait(timeout=10), SIGKILL to the group on timeout.
StopWait(t) ==
    LET s == th[t] IN
    /\ s.pc = "stop_wait"
    /\ \/ \* the process has exited (on SIGTERM or before): wait collects it
          StopFinish(t, s, TRUE, Killed(live, s.proc), reaped \cup {s.proc})
       \/ \* TimeoutExpired: the process ignored SIGTERM and is killed
          /\ Alive(s.proc)
          /\ StopFinish(t, Log(s, "force_killing"), TRUE, Killed(live, s.proc), reaped)
    /\ UNCHANGED <<server_configs, spawns, booted, monitoring_enabled,
                   relaunches, fails>>

\* Lines 238-243 and 255-257: the wait has timed out and the escalation raises
\* (os.getpgid or os.killpg: the group cannot be looked up or signalled).  The
\* except clause logs it and returns False; SIGTERM was delivered at line 231.
StopEscalationRaises(t) ==
    LET s == th[t] IN
    /\ s.pc = "stop_wait"
    /\ Alive(s.proc)
    /\ th' = [th EXCEPT ![t] =
          Return(Log(Log(s, "force_killing"), "stop_exception"), FALSE)]
    /\ UNCHANGED <<server_configs, servers, processes, spawns, live, reaped,
                   disk, booted, monitoring_enabled, relaunches, fails>>

\* Lines 222-253 of a forced stop with a _save_server_state that fails.
StopForcedSaveFails(t) ==
    LET s == th[t]
        process == processes[s.n] IN
    /\ s.pc = "stop_signal"
    /\ s.force
    /\ process # NoPid /\ process \notin reaped
    /\ live' = Killed(live, process)
    /\ processes' = [processes EXCEPT ![s.n] = NoPid]
    /\ servers' = IF servers[s.n].id = s.ref
                  THEN [servers EXCEPT ![s.n].status = "stopped", ![s.n].pid = NoPid]
                  ELSE servers
    /\ disk' \in SaveFails(disk, s.n)
    /\ th' = [th EXCEPT ![t] = Return(Log(Log(s, "stopped"), "save_failed"), TRUE)]
    /\ UNCHANGED <<server_configs, spawns, reaped, booted, monitoring_enabled,
                   relaunches, fails>>

\* ------------------------------------------------------- restart_server
\* Lines 261-268: count the restart, then call stop_server.  rc0 and wasRunning
\* remember what the call found: restart_count and whether the server ran.
Restart(t) ==
    LET s == th[t] IN
    /\ s.pc = "restart"
    /\ HasRec(s.n) => servers[s.n].restart_count < MaxCount
    /\ servers' = IF HasRec(s.n) THEN [servers EXCEPT ![s.n].restart_count = @ + 1]
                  ELSE servers
    /\ th' = [th EXCEPT ![t] = [s EXCEPT !.pc = "stop",
                 !.rc0 = IF HasRec(s.n) THEN servers[s.n].restart_count ELSE 0,
                 !.wasRunning = HasRec(s.n) /\ servers[s.n].status = "running"]]
    /\ UNCHANGED <<server_configs, processes, spawns, live, reaped, disk,
                   booted, monitoring_enabled, relaunches, fails>>

\* Lines 269-270: time.sleep(2), then start_server(name) without force.
RestartSleep(t) ==
    LET s == th[t] IN
    /\ s.pc = "restart_sleep"
    /\ th' = [th EXCEPT ![t] = [s EXCEPT !.pc = "start", !.force = FALSE]]
    /\ UNCHANGED <<server_configs, servers, processes, spawns, live, reaped,
                   disk, booted, monitoring_enabled, relaunches, fails>>

\* ------------------------------------------------------ monitoring thread
\* start_monitoring, lines 365-371: a new thread unless the flag is already set.
StartMonitoring(mons) ==
    /\ booted
    /\ ~monitoring_enabled
    /\ \E t \in mons :
          /\ th[t].pc = "mon_off"
          /\ th' = [th EXCEPT ![t] = [MonOff EXCEPT !.pc = "mon_loop"]]
    /\ monitoring_enabled' = TRUE
    /\ UNCHANGED <<server_configs, servers, processes, spawns, live, reaped,
                   disk, booted, relaunches, fails>>

\* stop_monitoring, lines 377-379: clear the flag; the join has a timeout.
StopMonitoring ==
    /\ monitoring_enabled
    /\ monitoring_enabled' = FALSE
    /\ UNCHANGED <<server_configs, servers, processes, spawns, live, reaped,
                   disk, booted, th, relaunches, fails>>

\* The monitor command after stop_monitoring (main, lines 754-760): the join of
\* line 379 gives up after 5 seconds, main returns and the interpreter exits;
\* the monitoring thread is a daemon thread (line 370) and ends wherever it is.
MonitorCommandExits(t) ==
    /\ t \in Mons
    /\ ~monitoring_enabled
    /\ th[t].pc \notin {"mon_off", "aborted"}
    /\ th' = [th EXCEPT ![t].pc = "aborted"]
    /\ UNCHANGED <<server_configs, servers, processes, spawns, live, reaped,
                   disk, booted, monitoring_enabled, relaunches, fails>>

RECURSIVE Configured(_, _)
Configured(cfgs, order) ==
    IF order = <<>> THEN <<>>
    ELSE IF cfgs[Head(order)].known
         THEN <<Head(order)>> \o Configured(cfgs, Tail(order))
         ELSE Configured(cfgs, Tail(order))

\* Line 385 after time.sleep(interval), and line 387: the for loop runs over the
\* dictionary self.server_configs names at this moment.
MonLoop(t) ==
    LET s == th[t] IN
    /\ s.pc = "mon_loop"
    /\ th' = [th EXCEPT ![t] =
          IF monitoring_enabled
          THEN [s EXCEPT !.pc = "mon_visit", !.snap = server_configs,
                         !.todo = Configured(server_configs, NameOrder)]
          ELSE MonOff]
    /\ UNCHANGED <<server_configs, servers, processes, spawns, live, reaped,
                   disk, booted, monitoring_enabled, relaunches, fails>>

\* A health check that never looks at the process table.
HealthCheckAlwaysPasses(rec) == TRUE

\* _health_check_server, lines 420-442, on a record whose status is running:
\* TRUE unless the record has a pid and no such process runs.
HealthCheckServer(rec) == ~(rec.pid # NoPid /\ ~Alive(rec.pid))

MonNext(s) == [s EXCEPT !.pc = "mon_visit", !.todo = Tail(s.todo), !.op = "none",
                        !.n = "a", !.proc = NoPid, !.ref = NoRef, !.server = NoRef,
                        !.ret = "none", !.rc0 = 0, !.wasRunning = FALSE,
                        !.force = FALSE, !.log = {}]

\* Lines 395-397: a server that should run and does not is started again while
\* its restart_count is below max_restarts.
AutoStart(config, server) ==
    config.auto_start /\ server.status # "running"

\* A monitor that looks after every server that has a record.
SkippedOnlyWithoutRecord(config, n) == ~HasRec(n)

\* Lines 388-393: the two continue statements of the for body.
Skipped(config, n) == ~config.auto_restart \/ ~HasRec(n)

\* One pass of the for body, lines 387-412, up to the call it makes.
MonVisit(t) ==
    LET s == th[t] IN
    /\ s.pc = "mon_visit"
    /\ IF s.todo = <<>>
       THEN /\ th' = [th EXCEPT ![t] = [s EXCEPT !.pc = "mon_loop", !.snap = NoSnap]]
            /\ UNCHANGED <<servers, fails>>
       ELSE LET n == Head(s.todo)
                config == s.snap[n]
                server == servers[n] IN
            IF Skipped(config, n)
            THEN /\ th' = [th EXCEPT ![t] = MonNext(s)]
                 /\ UNCHANGED <<servers, fails>>
            ELSE IF AutoStart(config, server)
                 THEN /\ th' = [th EXCEPT ![t] =
                            IF server.restart_count < config.max_restarts
                            THEN [s EXCEPT !.pc = "mon_delay", !.op = "mon_start",
                                           !.n = n]
                            ELSE MonNext(s)]
                      /\ UNCHANGED <<servers, fails>>
                 ELSE IF server.status = "running"
                 THEN IF HealthCheckServer(server)
                      THEN /\ servers' = [servers EXCEPT ![n].error_count = 0]
                           /\ fails' = [fails EXCEPT ![n] = 0]
                           /\ th' = [th EXCEPT ![t] = MonNext(s)]
                      ELSE /\ servers' = [servers EXCEPT
                                  ![n].status = "stopped",
                                  ![n].pid = NoPid,
                                  ![n].error_count = @ + 1]
                           /\ fails' = [fails EXCEPT ![n] =
                                 IF server.error_count + 1 >= FailThreshold THEN 0
                                 ELSE @ + 1]
                           /\ th' = [th EXCEPT ![t] =
                                 IF server.error_count + 1 >= FailThreshold
                                 THEN [s EXCEPT !.pc = "restart", !.op = "mon_restart",
                                                !.n = n, !.server = server.id]
                                 ELSE MonNext(s)]
                 ELSE /\ th' = [th EXCEPT ![t] = MonNext(s)]
                      /\ UNCHANGED <<servers, fails>>
    /\ UNCHANGED <<server_configs, processes, spawns, live, reaped, disk,
                   booted, monitoring_enabled, relaunches>>

\* Lines 399-400: time.sleep(config.restart_delay), then start_server(name).
MonDelay(t) ==
    LET s == th[t] IN
    /\ s.pc = "mon_delay"
    /\ th' = [th EXCEPT ![t] = [s EXCEPT !.pc = "start"]]
    /\ UNCHANGED <<server_configs, servers, processes, spawns, live, reaped,
                   disk, booted, monitoring_enabled, relaunches, fails>>

\* Back in the for body after start_server (line 400) or restart_server
\* (line 408, followed by server.error_count = 0 on the object read at line 391).
MonBack(t) ==
    LET s == th[t] IN
    /\ s.pc = "mon_back"
    /\ servers' = IF s.op = "mon_restart" /\ servers[s.n].id = s.server
                  THEN [servers EXCEPT ![s.n].error_count = 0]
                  ELSE servers
    /\ th' = [th EXCEPT ![t] = MonNext(s)]
    /\ UNCHANGED <<server_configs, processes, spawns, live, reaped, disk,
                   booted, monitoring_enabled, relaunches, fails>>

\* ------------------------------------------------------ operator commands
\* A caller enters start_server, stop_server or restart_server.
Call(t, names, forces) ==
    /\ booted
    /\ th[t].pc = "idle"
    /\ \E n \in names, op \in {"start", "stop", "restart"}, f \in forces :
          /\ op = "restart" => ~f
          /\ th' = [th EXCEPT ![t] = [Idle EXCEPT !.pc = op, !.op = op, !.n = n,
                                                 !.force = f]]
    /\ UNCHANGED <<server_configs, servers, processes, spawns, live, reaped,
                   disk, booted, monitoring_enabled, relaunches, fails>>

\* _update_server_metrics, lines 283-293: a running record whose pid is gone
\* becomes stopped.
UpdateServerMetrics(server) ==
    IF server.id # NoRef /\ server.status = "running" /\ server.pid # NoPid
       /\ ~Alive(server.pid)
    THEN [server EXCEPT !.status = "stopped", !.pid = NoPid]
    ELSE server

\* get_server_status answering from the configuration instead of self.servers.
StatusNamesConfigured(sv, n) ==
    IF n = NoName THEN {m \in Names : server_configs[m].known}
    ELSE IF server_configs[n].known THEN {n} ELSE {}

\* Lines 278-281: the names of the dictionary get_server_status returns.
StatusNames(sv, n) ==
    IF n = NoName THEN {m \in Names : sv[m].id # NoRef}
    ELSE IF sv[n].id # NoRef THEN {n} ELSE {}

\* get_server_status, lines 274-281; names may hold NoName.
GetServerStatus(t, names) ==
    /\ booted
    /\ th[t].pc = "idle"
    /\ servers' = [n \in Names |-> UpdateServerMetrics(servers[n])]
    /\ \E n \in names :
          th' = [th EXCEPT ![t] = [Idle EXCEPT !.pc = "done", !.op = "status",
                                              !.n = n, !.ret = "ok",
                                              !.result = StatusNames(servers', n)]]
    /\ UNCHANGED <<server_configs, processes, spawns, live, reaped, disk,
                   booted, monitoring_enabled, relaunches, fails>>

\* The keys of self.servers, in NameOrder.
RECURSIVE Keys(_, _)
Keys(sv, order) ==
    IF order = <<>> THEN <<>>
    ELSE IF sv[Head(order)].id # NoRef
         THEN <<Head(order)>> \o Keys(sv, Tail(order))
         ELSE Keys(sv, Tail(order))

\* get_server_status run next to other threads.  Line 285 creates an iterator
\* over self.servers.items() and fetches the first item; result holds the keys
\* the dictionary has at that moment.  An empty dictionary ends the loop at once.
StatusBegin(t, names) ==
    /\ booted
    /\ th[t].pc = "idle"
    /\ \E n \in names :
          th' = [th EXCEPT ![t] =
             IF \A m \in Names : ~HasRec(m)
             THEN [Idle EXCEPT !.pc = "done", !.op = "status", !.n = n, !.ret = "ok"]
             ELSE [Idle EXCEPT !.pc = "status_iter", !.op = "status", !.n = n,
                               !.todo = Keys(servers, NameOrder),
                               !.result = {m \in Names : HasRec(m)}]]
    /\ UNCHANGED <<server_configs, servers, processes, spawns, live, reaped,
                   disk, booted, monitoring_enabled, relaunches, fails>>

\* Lines 286-293 for the item in hand, then the iterator's next step: it raises
\* RuntimeError (dictionary changed size during iteration) if a key was added
\* since the iterator was created; get_server_status does not catch it.
StatusIter(t) ==
    LET s == th[t]
        sv == [servers EXCEPT ![Head(s.todo)] = UpdateServerMetrics(@)] IN
    /\ s.pc = "status_iter"
    /\ servers' = sv
    /\ th' = [th EXCEPT ![t] =
          IF {m \in Names : HasRec(m)} # s.result
          THEN [s EXCEPT !.pc = "done", !.ret = "fail", !.todo = <<>>, !.result = {},
                         !.log = {"dict_changed_size"}]
          ELSE IF Tail(s.todo) = <<>>
               THEN [s EXCEPT !.pc = "done", !.ret = "ok", !.todo = <<>>,
                              !.result = StatusNames(sv, s.n)]
               ELSE [s EXCEPT !.todo = Tail(s.todo)]]
    /\ UNCHANGED <<server_configs, processes, spawns, live, reaped, disk,
                   booted, monitoring_enabled, relaunches, fails>>

\* deploy_server that also forgets the runtime record of the name.
DeployServerDropsRecord(t, names) ==
    /\ booted
    /\ th[t].pc = "idle"
    /\ \E n \in names, c \in DeployConfigs :
          /\ server_configs' = [server_configs EXCEPT ![n] = c]
          /\ servers' = [servers EXCEPT ![n] = NoServer]
          /\ th' = [th EXCEPT ![t] = [Idle EXCEPT !.pc = "done", !.op = "deploy",
                                                 !.n = n, !.ret = "ok",
                                                 !.config = c]]
    /\ UNCHANGED <<processes, spawns, live, reaped, disk, booted,
                   monitoring_enabled, relaunches, fails>>

\* deploy_server, lines 463-486: rewrite mcp.json and reload every configuration;
\* config is the server_config argument.
DeployServer(t, names) ==
    /\ booted
    /\ th[t].pc = "idle"
    /\ \E n \in names, c \in DeployConfigs :
          /\ server_configs' = [server_configs EXCEPT ![n] = c]
          /\ th' = [th EXCEPT ![t] = [Idle EXCEPT !.pc = "done", !.op = "deploy",
                                                 !.n = n, !.ret = "ok",
                                                 !.config = c]]
    /\ UNCHANGED <<servers, processes, spawns, live, reaped, disk, booted,
                   monitoring_enabled, relaunches, fails>>

\* The call has returned to the caller.
Returned(t) ==
    /\ th[t].pc = "done"
    /\ th' = [th EXCEPT ![t] = Idle]
    /\ UNCHANGED <<server_configs, servers, processes, spawns, live, reaped,
                   disk, booted, monitoring_enabled, relaunches, fails>>

\* ------------------------------------------------------------ environment
\* The supervisor is killed inside the _save_server_state of line 192, between
\* open(state_file, 'w') (line 308) and the end of json.dump (line 317), and is
\* started again: __init__ runs, the children (own sessions) live on.
CrashInSave(t) ==
    LET s == th[t] IN
    /\ s.pc = "start_poll" /\ Alive(s.proc) /\ HasRec(s.n)
    /\ disk' = [disk EXCEPT ![s.n] = Partial]
    /\ servers' = [n \in Names |-> NoServer]
    /\ processes' = [n \in Names |-> NoPid]
    /\ booted' = FALSE
    /\ monitoring_enabled' = FALSE
    /\ th' = [u \in Threads |-> IF u \in Mons THEN MonOff ELSE Idle]
    /\ relaunches' = [n \in Names |-> 0]
    /\ fails' = [n \in Names |-> 0]
    /\ UNCHANGED <<server_configs, spawns, live, reaped>>

\* A managed process exits or is killed from outside.
ProcessExit ==
    /\ \E e \in live : live' = live \ {e}
    /\ UNCHANGED <<server_configs, servers, processes, spawns, reaped, disk,
                   booted, monitoring_enabled, th, relaunches, fails>>

\* --------------------------------------------------------- specifications
\* The steps of start_server, stop_server and restart_server, whoever runs them.
Step(t) ==
    \/ StartCheck(t) \/ StartSpawn(t) \/ StartPoll(t)
    \/ StopCheck(t) \/ StopSignal(t) \/ StopWait(t)
    \/ Restart(t) \/ RestartSleep(t)

MonStep(t) == MonLoop(t) \/ MonVisit(t) \/ MonDelay(t) \/ MonBack(t)

\* One operator and the monitoring thread working on server "a", whose
\* configuration is any of DeployConfigs; no state files from an earlier session.
Next ==
    \/ LoadServerStates
    \/ \E t \in {"op1"} : Call(t, {"a"}, BOOLEAN) \/ GetServerStatus(t, {"a"}) \/ Returned(t)
    \/ \E t \in {"op1", "mon"} : Step(t)
    \/ StartMonitoring({"mon"}) \/ StopMonitoring
    \/ MonStep("mon")
    \/ ProcessExit

Spec == Init /\ [][Next]_vars

\* One operator alone (no monitoring thread): every sequence of commands.
NextSeq ==
    \/ LoadServerStates
    \/ \E t \in {"op1"} : Call(t, {"a"}, BOOLEAN) \/ GetServerStatus(t, {"a"}) \/ Returned(t)
                          \/ Step(t)
    \/ ProcessExit

SpecSeq == InitWith({NoState}, {MCPServerConfig(TRUE, TRUE, CfgMaxRestarts)}) /\ [][NextSeq]_vars

\* Two callers issuing non-forced start/stop/restart on the same name at once.
NextConc ==
    \/ LoadServerStates
    \/ \E t \in {"op1", "op2"} : Call(t, {"a"}, {FALSE}) \/ Returned(t) \/ Step(t)
    \/ ProcessExit

SpecConc == InitWith({NoState}, {MCPServerConfig(TRUE, TRUE, CfgMaxRestarts)}) /\ [][NextConc]_vars

\* One operator using start, stop, restart and status on every name, the one
\* mcp.json configures (with any auto_start and auto_restart) and the one it
\* does not, and on all names at once.
NextOps ==
    \/ LoadServerStates
    \/ \E t \in {"op1"} :
          \/ Call(t, Names, BOOLEAN)
          \/ GetServerStatus(t, Names \cup {NoName})
          \/ Returned(t)
          \/ Step(t)
    \/ ProcessExit

SpecOps == InitWith({NoState}, DeployConfigs) /\ [][NextOps]_vars

\* One operator working on server "a" and deploying configurations, for "a"
\* while it runs and for the new name "b".
NextDeploy ==
    \/ NextSeq
    \/ DeployServer("op1", Names)

SpecDeploy == InitWith({NoState}, {MCPServerConfig(TRUE, TRUE, CfgMaxRestarts)}) /\ [][NextDeploy]_vars

\* Startup over the state file of server "a"; then one caller asks for the
\* status while another one deploys server "b" and starts, stops and restarts it.
NextSnap ==
    \/ LoadServerStates
    \/ StatusBegin("op1", Names \cup {NoName}) \/ StatusIter("op1") \/ Returned("op1")
    \/ Call("op2", {"b"}, {FALSE}) \/ DeployServer("op2", {"b"}) \/ Returned("op2")
    \/ Step("op2")
    \/ ProcessExit

SpecSnap == InitWith(PriorStates, {MCPServerConfig(TRUE, TRUE, CfgMaxRestarts)}) /\ [][NextSnap]_vars

\* One operator, and system calls that can fail after stop_server has signalled.
NextStopFail ==
    \/ NextSeq
    \/ StopEscalationRaises("op1")

SpecStopFail == InitWith({NoState}, {MCPServerConfig(TRUE, TRUE, CfgMaxRestarts)}) /\ [][NextStopFail]_vars

\* One operator, and state files that cannot always be written.
NextSaveFail ==
    \/ NextSeq
    \/ StartPollSaveFails("op1")
    \/ StopForcedSaveFails("op1")

SpecSaveFail == InitWith({NoState}, {MCPServerConfig(TRUE, TRUE, CfgMaxRestarts)}) /\ [][NextSaveFail]_vars

\* One operator, and a supervisor that can be killed while it saves.
NextCrash ==
    \/ NextSeq
    \/ CrashInSave("op1")

SpecCrash == InitWith({NoState}, {MCPServerConfig(TRUE, TRUE, CfgMaxRestarts)}) /\ [][NextCrash]_vars

\* Startup over the state file of an earlier session, then one operator.
SpecBoot == InitWith(PriorStates, {MCPServerConfig(TRUE, TRUE, CfgMaxRestarts)}) /\ [][NextSeq]_vars

\* The monitoring thread on its own: it is started once and never told to stop,
\* finds the state file of an earlier session, and new configurations are
\* deployed while it runs.  The thread scheduler lets the thread take its next
\* step whenever it has one.
MonitorRuns ==
    \/ LoadServerStates
    \/ StartMonitoring({"mon"})
    \/ MonStep("mon")
    \/ StartCheck("mon") \/ StartSpawn("mon") \/ StartPoll("mon")

NextLive ==
    \/ MonitorRuns
    \/ DeployServer("op1", {"b"}) \/ Returned("op1")
    \/ ProcessExit

SpecLive ==
    /\ InitWith(PriorStates, {MCPServerConfig(TRUE, TRUE, CfgMaxRestarts)})
    /\ [][NextLive]_vars
    /\ WF_vars(MonitorRuns)

\* The two probes side by side: the monitoring thread, which starts the server
\* it finds in a state file and checks it, and a caller asking for the status,
\* while the process can exit at any time.
NextProbe ==
    \/ MonitorRuns
    \/ GetServerStatus("op1", {"a", NoName}) \/ Returned("op1")
    \/ ProcessExit

SpecProbe == InitWith(PriorStates, {MCPServerConfig(TRUE, TRUE, CfgMaxRestarts)}) /\ [][NextProbe]_vars

\* Ctrl+C in the monitor command (line 754) while the monitoring thread is in
\* one of its long sleeps, restart_delay (line 399) or interval (line 414).
StopWhileAsleep ==
    /\ \E t \in Mons : th[t].pc \in {"mon_delay", "mon_loop"}
    /\ StopMonitoring

\* The monitor command: the monitoring thread works on the server it finds in
\* a state file, is told to stop, and the command exits.
NextShutdown ==
    \/ MonitorRuns
    \/ StopWhileAsleep
    \/ MonitorCommandExits("mon")
    \/ ProcessExit

SpecShutdown == InitWith(PriorStates, {MCPServerConfig(TRUE, TRUE, CfgMaxRestarts)}) /\ [][NextShutdown]_vars

\* Two servers under the monitoring thread: "a" comes from a state file, "b" is
\* deployed and started by an operator (the start command of main).
CallStart(t, names) ==
    /\ booted
    /\ th[t].pc = "idle"
    /\ \E n \in names :
          th' = [th EXCEPT ![t] = [Idle EXCEPT !.pc = "start", !.op = "start", !.n = n]]
    /\ UNCHANGED <<server_configs, servers, processes, spawns, live, reaped,
                   disk, booted, monitoring_enabled, relaunches, fails>>

NextTwo ==
    \/ MonitorRuns
    \/ DeployServer("op1", {"b"}) \/ CallStart("op1", {"b"}) \/ Returned("op1")
    \/ StartCheck("op1") \/ StartSpawn("op1") \/ StartPoll("op1")
    \/ ProcessExit

SpecTwo ==
    InitWith({d \in PriorStates : d.present /\ d.pid = NoPid},
             {MCPServerConfig(TRUE, TRUE, CfgMaxRestarts)})
    /\ [][NextTwo]_vars

\* The single monitoring loop next to one operator issuing start, stop and
\* restart on server "a", every counter starting at 0 (no state file); the
\* server is one the monitor looks after (auto_restart).
NextCount ==
    \/ LoadServerStates
    \/ StartMonitoring({"mon"})
    \/ MonStep("mon")
    \/ Call("op1", {"a"}, {FALSE}) \/ Returned("op1")
    \/ \E t \in {"op1", "mon"} : Step(t)
    \/ ProcessExit

SpecCount ==
    InitWith({NoState}, {c \in DeployConfigs : c.auto_restart}) /\ [][NextCount]_vars

\* start_monitoring and stop_monitoring called again and again: every call of
\* start_monitoring that gets past line 365 makes a new thread (line 369). A
\* started thread runs (weak fairness on its steps).
MonitorThread(t) ==
    MonStep(t) \/ StartCheck(t) \/ StartSpawn(t) \/ StartPoll(t)

NextRemonitor ==
    \/ LoadServerStates
    \/ StartMonitoring(Mons) \/ StopMonitoring
    \/ \E t \in Mons : MonitorThread(t)
    \/ ProcessExit

SpecRemonitor ==
    /\ InitWith(PriorStates, {MCPServerConfig(TRUE, TRUE, CfgMaxRestarts)})
    /\ [][NextRemonitor]_vars
    /\ \A t \in Mons : WF_vars(MonitorThread(t))

\* The monitoring loop over a server of any configuration (auto_restart or
\* not) whose record comes from a state file or from an operator's start.
NextFrame ==
    \/ LoadServerStates
    \/ StartMonitoring({"mon"})
    \/ MonStep("mon")
    \/ CallStart("op1", {"a"}) \/ Returned("op1")
    \/ \E t \in {"op1", "mon"} : StartCheck(t) \/ StartSpawn(t) \/ StartPoll(t)
    \/ ProcessExit

SpecFrame == InitWith(PriorStates, DeployConfigs) /\ [][NextFrame]_vars

\* ------------------------------------------------------------------ claims

\* C1: whatever the interleaving of non-forced start(), stop() and restart()
\* calls issued concurrently against one server name, no state has two live
\* processes spawned for that name.
C1_OneLiveProcessUnderConcurrency ==
    \A n \in Names : \A p, q \in LiveOf(n) : p = q

\* C2: the monitor relaunches a server at most max_restarts times; afterwards
\* the server stays parked and no monitor tick spawns a process for it.
C2_RelaunchesBounded ==
    \A n \in Names :
        server_configs[n].known => relaunches[n] <= server_configs[n].max_restarts

\* C3: no step of start(), stop(), restart(), status() or the monitor lowers the
\* restart_count of a server that has a runtime record.
C3_RestartCountMonotonic ==
    [][\A n \in Names :
          HasRec(n) => servers'[n].restart_count >= servers[n].restart_count]_vars

\* C4: in every state a single caller can reach with any sequence of commands,
\* start(name, force=true) on a running server included, at most one live
\* process is associated with the name.
C4_OneLiveProcessSequential ==
    \A n \in Names : Cardinality(LiveOf(n)) <= 1

\* C5: the third health check a server fails in a row makes the monitor call
\* restart() and start counting again from 0, so no state shows three failed
\* checks in a row that no restart() has answered.
C5_ThreeFailuresTriggerRestart ==
    \A n \in Names : fails[n] < FailThreshold

\* C6: each relaunch by the monitor of a server whose process was killed
\* raises the server's restart_count by exactly one.
C6_RelaunchCountsRestart ==
    [][\A t \in Mons :
          (th[t].op = "mon_start" /\ th[t].pc = "start_spawn" /\ th'[t].pc = "start_poll")
          => servers'[th[t].n].restart_count = servers[th[t].n].restart_count + 1]_vars

\* C7: a restart() of a running server that returns success leaves the server
\* running with a new live process, the old one gone, and restart_count one
\* above its value before the call.
C7_RestartIncrementsCount ==
    \A t \in Threads :
        (th[t].pc = "done" /\ th[t].op = "restart" /\ th[t].ret = "ok" /\ th[t].wasRunning)
        => /\ servers[th[t].n].status = "running"
           /\ LiveOf(th[t].n) \subseteq {servers[th[t].n].pid}
           /\ servers[th[t].n].restart_count = th[t].rc0 + 1

\* C8: while the monitor runs, a server whose configuration has auto_start,
\* that is not running (a server without runtime record included) and whose
\* restart_count is below max_restarts, is eventually started by the monitor.
Eligible(n) ==
    /\ monitoring_enabled
    /\ server_configs[n].known /\ server_configs[n].auto_start
    /\ servers[n].status # "running"
    /\ servers[n].restart_count < server_configs[n].max_restarts

StartedByMonitor(n) ==
    \/ servers[n].status = "running"
    \/ \E t \in Mons : th[t].n = n /\ th[t].pc \in StartPcs

C8_MonitorStartsEligible ==
    \A n \in Names : Eligible(n) ~> StartedByMonitor(n)

\* C9: startup over a state file whose pid is absent or not a live process
\* creates a runtime record that is stopped, has no pid, and has the file's
\* restart_count and error_count.
DeadRecord(n) ==
    /\ disk[n].present /\ server_configs[n].known
    /\ disk[n].pid = NoPid \/ ~Alive(disk[n].pid)

C9_ReconcileDeadPid ==
    [][(~booted /\ booted') =>
          \A n \in Names :
              DeadRecord(n) =>
                  /\ servers'[n].id # NoRef
                  /\ servers'[n].status = "stopped"
                  /\ servers'[n].pid = NoPid
                  /\ servers'[n].restart_count = disk[n].restart_count
                  /\ servers'[n].error_count = disk[n].error_count]_vars

\* C9 witness: startup has just read a state file that names a dead pid and holds
\* non-zero counters, and the runtime record carries them.
C9_Witness ==
    /\ booted
    /\ \A t \in Threads : th[t].pc \in {"idle", "mon_off"}
    /\ disk["a"].status = "running" /\ disk["a"].pid # NoPid /\ ~Alive(disk["a"].pid)
    /\ disk["a"].restart_count = 1 /\ disk["a"].error_count = 1
    /\ servers["a"].id = LoadedRef
    /\ servers["a"].restart_count = 1 /\ servers["a"].error_count = 1

\* C10: startup over a state file whose pid is a live process adopts the server
\* as running with that pid.
C10_ReconcileAdoptsLivePid ==
    [][(~booted /\ booted') =>
          \A n \in Names :
              (disk[n].present /\ server_configs[n].known /\ Alive(disk[n].pid))
              => /\ servers'[n].status = "running"
                 /\ servers'[n].pid = disk[n].pid]_vars

C12_PersistedEqualsMemory ==
    (\A t \in Threads : th[t].pc \in {"idle", "done", "mon_off"})
    => \A n \in Names : HasRec(n) => disk[n] = StateData(servers[n])

\* C13: a supervisor crash at any point of a save leaves the complete previous
\* or the complete new record: no state file is ever empty, partial or corrupt.
C13_SaveIsAtomic ==
    \A n \in Names : disk[n].present => disk[n].status # "partial"

\* C14: start(name) with force=false on a server whose status is running
\* returns success at once: no process is spawned, and the runtime record (pid,
\* start time, restart_count, error_count), the process handles and the state
\* file are unchanged.
C14_StartOnRunningIsNoOp ==
    [][\A t \in Threads :
          (/\ th[t].pc = "start" /\ th[t].op = "start" /\ ~th[t].force
           /\ server_configs[th[t].n].known
           /\ HasRec(th[t].n) /\ servers[th[t].n].status = "running"
           /\ th'[t] # th[t])
          => /\ th'[t].pc = "done" /\ th'[t].ret = "ok"
             /\ UNCHANGED <<servers, processes, spawns, live, reaped, disk>>]_vars

\* C14 witness: a non-forced start() found the server running and returned
\* success; the process of the record is alive.
C14_Witness ==
    \E t \in Threads :
        /\ th[t].pc = "done" /\ th[t].op = "start" /\ ~th[t].force
        /\ th[t].ret = "ok" /\ th[t].log = {"already_running"}
        /\ servers[th[t].n].status = "running" /\ Alive(servers[th[t].n].pid)

\* C15: stop(name) on a server that is not running (stopped, errored, or
\* without runtime record) returns success at once, signals no process, and
\* leaves the runtime records, the process handles and the state files
\* unchanged.
C15_StopOnNotRunningIsNoOp ==
    [][\A t \in Threads :
          (/\ th[t].pc = "stop" /\ th[t].op = "stop"
           /\ ~(HasRec(th[t].n) /\ servers[th[t].n].status = "running")
           /\ th'[t] # th[t])
          => /\ th'[t].pc = "done" /\ th'[t].ret = "ok"
             /\ UNCHANGED <<servers, processes, spawns, live, reaped, disk>>]_vars

\* C15 witness: a stop() of an errored server has returned success and the
\* record is still errored.
C15_Witness ==
    \E t \in Threads :
        /\ th[t].pc = "done" /\ th[t].op = "stop" /\ th[t].ret = "ok"
        /\ th[t].log = {"not_running"}
        /\ servers[th[t].n].status = "error"

\* C16: start(name), forced or not, for a name without configuration returns
\* failure at once: no process is spawned and no runtime record, process handle
\* or state file is created or changed.
C16_StartUnknownFails ==
    [][\A t \in Threads :
          (/\ th[t].pc = "start" /\ th[t].op = "start"
           /\ ~server_configs[th[t].n].known
           /\ th'[t] # th[t])
          => /\ th'[t].pc = "done" /\ th'[t].ret = "fail"
             /\ UNCHANGED <<servers, processes, spawns, live, reaped, disk>>]_vars

\* C16 witness: a start() of the name mcp.json does not configure has returned
\* failure and the name has neither record nor handle nor state file.
C16_Witness ==
    \E t \in Threads :
        /\ th[t].pc = "done" /\ th[t].op = "start" /\ th[t].ret = "fail"
        /\ th[t].log = {"config_not_found"}
        /\ ~server_configs[th[t].n].known
        /\ ~HasRec(th[t].n) /\ processes[th[t].n] = NoPid /\ ~disk[th[t].n].present

\* C17: a start(name) whose spawned process exited within the grace interval
\* has returned failure, the server is errored, and no process spawned for the
\* name is alive.
C17_ImmediateExitErrored ==
    \A t \in Threads :
        (th[t].pc = "done" /\ th[t].op = "start" /\ "failed_to_start" \in th[t].log)
        => /\ th[t].ret = "fail"
           /\ servers[th[t].n].status = "error"
           /\ LiveOf(th[t].n) = {}

\* C18: a start(name) whose spawn failed has returned failure and left a
\* runtime record of the name that is errored and that a status(name) call
\* made now returns; also when no record of the name existed before.
C18_SpawnFailureLeavesErroredRecord ==
    \A t \in Threads :
        (th[t].pc = "done" /\ th[t].op = "start" /\ "start_exception" \in th[t].log)
        => /\ th[t].ret = "fail"
           /\ StatusNames(servers, th[t].n) = {th[t].n}
           /\ UpdateServerMetrics(servers[th[t].n]).status = "error"

\* C19: deploy(name, config) makes config the configuration of the name,
\* whether or not the name had one, and changes nothing else: the other
\* configurations, the runtime records, the process handles, the processes and
\* the state files of all servers stay as they are.
C19_DeployOnlyChangesConfig ==
    [][\A t \in Threads :
          (th[t].pc = "idle" /\ th'[t].op = "deploy")
          => /\ th'[t].ret = "ok"
             /\ server_configs'[th'[t].n] = th'[t].config
             /\ \A m \in Names \ {th'[t].n} : server_configs'[m] = server_configs[m]
             /\ UNCHANGED <<servers, processes, spawns, live, reaped, disk>>]_vars

\* C19 witness: a deploy() has replaced the configuration of a server while it
\* runs; the server still runs with its process.
C19_Witness ==
    \E t \in Threads :
        /\ th[t].pc = "done" /\ th[t].op = "deploy" /\ th[t].n = "a"
        /\ server_configs["a"] = th[t].config /\ ~th[t].config.auto_start
        /\ servers["a"].status = "running" /\ Alive(servers["a"].pid)
        /\ processes["a"] = servers["a"].pid /\ disk["a"].status = "running"

C21_StatusSnapshotComplete ==
    \A t \in Threads :
        (th[t].pc = "done" /\ th[t].op = "status")
        => /\ th[t].ret = "ok"
           /\ \A n \in th[t].result :
                 servers[n].status = "stopped" => servers[n].pid = NoPid

\* C22: while a start() is between the spawn and the check that follows the
\* grace interval, the record it created is not running yet (it is starting):
\* running is only set once the process was found alive.
C22_StartingUntilVerified ==
    \A t \in Threads :
        (th[t].pc = "start_poll" /\ servers[th[t].n].id = th[t].proc)
        => servers[th[t].n].status # "running"

\* C23: a stop() that delivered the terminate signal and then failed in a later
\* step (here: the escalation after the timeout) has still recorded the server
\* stopped with its pid cleared.
C23_FailedStopStillStopped ==
    \A t \in Threads :
        (/\ th[t].pc = "done" /\ th[t].op = "stop" /\ th[t].ret = "fail"
         /\ "force_killing" \in th[t].log)
        => /\ servers[th[t].n].status = "stopped"
           /\ servers[th[t].n].pid = NoPid

\* C24: a start() or stop() whose write of the state file fails returns
\* success, leaves the runtime record as a successful write would (running with
\* the new pid after start, stopped without pid after stop), and leaves every
\* state file with the content it had.
C24_SaveFailureKeepsOldRecord ==
    [][\A t \in Threads :
          ("save_failed" \in th'[t].log /\ "save_failed" \notin th[t].log)
          => /\ th'[t].ret = "ok"
             /\ th[t].pc = "start_poll"
                   => /\ servers'[th[t].n].status = "running"
                      /\ servers'[th[t].n].pid = th[t].proc
             /\ th[t].pc = "stop_signal"
                   => /\ servers'[th[t].n].status = "stopped"
                      /\ servers'[th[t].n].pid = NoPid
             /\ disk' = disk]_vars

\* C25: a liveness probe (the poll of status() over every running record, the
\* health check of the monitor on the record it visits) leaves a record it
\* found running as it is if the process of its pid is alive, and stopped
\* with the pid cleared if that process has vanished.
Probed(n) ==
    \/ \E t \in Threads : th[t].pc = "idle" /\ th'[t].op = "status"
    \/ \E t \in Mons :
          /\ th[t].pc = "mon_visit" /\ th[t].todo # <<>> /\ Head(th[t].todo) = n
          /\ th'[t] # th[t]
          /\ th[t].snap[n].auto_restart
          /\ ~AutoStart(th[t].snap[n], servers[n])

C25_ProbeMarksVanishedStopped ==
    [][\A n \in Names :
          (HasRec(n) /\ servers[n].status = "running" /\ Probed(n))
          => IF Alive(servers[n].pid)
             THEN servers'[n].status = "running" /\ servers'[n].pid = servers[n].pid
             ELSE servers'[n].status = "stopped" /\ servers'[n].pid = NoPid]_vars

\* C25 witness: the monitor's health check has found the process of a running
\* server gone and marked the record stopped.
C25_Witness ==
    /\ servers["a"].status = "stopped" /\ servers["a"].pid = NoPid
    /\ servers["a"].error_count = 1 /\ fails["a"] = 1
    /\ servers["a"].id \in 1..spawns /\ ~Alive(servers["a"].id)

\* C26: once the monitor has been told to stop, its loop ends between two
\* operations: a start or stop it had begun has run to completion, so the loop
\* never ends while the thread holds a process it spawned and has not yet
\* verified, or one it signalled and still waits for.
C26_MonitorEndsBetweenOperations ==
    \A t \in Mons :
        th[t].pc \in {"mon_off", "aborted"} => th[t].proc = NoPid

\* C27: an operation in progress on one name (the monitor sleeping
\* restart_delay before a start, a start or stop under way) keeps no operation
\* on a different name waiting: while the monitor is busy with one server, no
\* other server of the same tick is due for an automatic start.
Due(t, m) ==
    /\ th[t].snap[m].auto_restart /\ HasRec(m)
    /\ AutoStart(th[t].snap[m], servers[m])
    /\ servers[m].restart_count < th[t].snap[m].max_restarts

InProgress(t) == th[t].pc \in {"mon_delay"} \cup StartPcs \cup StopPcs

C27_NamesDoNotBlockEachOther ==
    \A t \in Mons :
        InProgress(t)
        => \A i \in 2..Len(th[t].todo) :
              th[t].todo[i] # th[t].n => ~Due(t, th[t].todo[i])

\* C28: with one monitoring loop and counters starting at 0, error_count of
\* every record is at most 1 (the first failed health check marks the record
\* stopped, every start makes a fresh record), so the threshold of three
\* failures is never reached and the monitor never calls restart_server.
C28_ErrorCountAtMostOne ==
    /\ \A n \in Names : HasRec(n) => servers[n].error_count <= 1
    /\ \A t \in Mons : th[t].op # "mon_restart" /\ th[t].pc \notin {"restart", "restart_sleep"}

\* A record that failed its first health check: stopped, one failure counted.
C28_Witness ==
    \E n \in Names :
        /\ HasRec(n) /\ servers[n].error_count = 1 /\ servers[n].status = "stopped"
        /\ fails[n] = 1
        /\ \E t \in Mons : th[t].pc = "mon_visit"

\* C29: at most one monitor loop is active: start_monitoring while monitoring
\* is enabled starts no second loop, and a loop that stop_monitoring has told to
\* stop ends, whatever is started afterwards and wherever the loop sleeps.
C29_NoSecondLoopWhileEnabled ==
    [][monitoring_enabled => \A t \in Mons : th[t].pc = "mon_off" => th'[t].pc = "mon_off"]_vars

C29_StoppedLoopEnds ==
    \A t \in Mons :
        (~monitoring_enabled /\ th[t].pc # "mon_off") ~> (th[t].pc = "mon_off")

C29_AtMostOneMonitorLoop == C29_NoSecondLoopWhileEnabled /\ C29_StoppedLoopEnds

\* C30: for a server configured with auto_restart = false, no step of the
\* monitoring thread changes its runtime record, its process handle or its
\* state file, spawns or ends a process for it, or enters start_server or
\* restart_server, whatever auto_start and the status of the record are.
C30_MonitorLeavesNoAutoRestartAlone ==
    [][\A n \in Names, t \in Mons :
          (server_configs[n].known /\ ~server_configs[n].auto_restart /\ th'[t] # th[t])
          => /\ servers'[n] = servers[n]
             /\ processes'[n] = processes[n]
             /\ disk'[n] = disk[n]
             /\ LiveOf(n)' = LiveOf(n)
             /\ spawns' = spawns
             /\ th'[t].pc \in {"mon_off", "mon_loop", "mon_visit"}]_vars

\* The monitor has just passed over a server with auto_start = true and
\* auto_restart = false whose record has said stopped since it was loaded from
\* the state file (nothing was ever spawned), and has left it stopped.
C30_Witness ==
    \E t \in Mons :
        /\ th[t].pc = "mon_visit" /\ th[t].todo = <<>>
        /\ th[t].snap["a"].known /\ ~th[t].snap["a"].auto_restart
        /\ th[t].snap["a"].auto_start
        /\ HasRec("a") /\ servers["a"].status = "stopped" /\ spawns = 0

====
